---- MODULE Spec2Model ----
(***************************************************************************)
(* A model of redmine/__init__.py: the Redmine client object, its request  *)
(* method and the upload and download helpers built on it.                 *)
(*                                                                         *)
(* Python values are modelled as follows.  A dict is a function from its   *)
(* keys; None is the string "None"; a text is a sequence of tokens (a "/"  *)
(* token is the path separator); a request body or a response body is a    *)
(* record that keeps the Python type beside the value, so that a           *)
(* serialized body differs from the object it was serialized from.         *)
(*                                                                         *)
(* A call is one step.  Its inputs are its arguments and the response the  *)
(* server gives to the request it dispatches.  The step records what the   *)
(* call did (sent, log, outcome) beside the program's state, which is the  *)
(* client's fields and the dicts the caller passed in.  Before its next    *)
(* call the caller either drops all that (CallerContinues) or makes the    *)
(* same request call again with the same objects (RequestAgain).           *)
(***************************************************************************)
EXTENDS Integers, Sequences, FiniteSets, TLC

VARIABLES
    url, key, ver, username, password, requests, impersonate,
    date_format, datetime_format,   \* the client's configuration fields
    callerHeaders, callerParams,    \* the dict objects the caller passed in, as they are now
    op,                             \* the call last made: "none" once the caller has moved on
    args,                           \* its arguments, as they were when it was made
    sent,                           \* the requests that call has dispatched, in order
    log,                            \* the file operations and dispatches of that call, in order
    resp,                           \* the response that call received
    outcome                         \* how that call ended

config == <<url, key, ver, username, password, requests, impersonate,
            date_format, datetime_format>>
vars == <<url, key, ver, username, password, requests, impersonate,
          date_format, datetime_format, callerHeaders, callerParams,
          op, args, sent, log, resp, outcome>>

(***************************************************************************)
(* Bounds.                                                                 *)
(***************************************************************************)
MaxErrors == 1      \* longest 'errors' list of a 422 body

(***************************************************************************)
(* Python values.                                                          *)
(***************************************************************************)
None == "None"
EmptyDict == [k \in {} |-> None]

\* dict(a, **b): a new dict, b's entries over a's
DictMerge(a, b) ==
    [k \in (DOMAIN a) \cup (DOMAIN b) |-> IF k \in DOMAIN b THEN b[k] ELSE a[k]]

\* d[k] = v on a dict
DictSet(d, k, v) == [x \in (DOMAIN d) \cup {k} |-> IF x = k THEN v ELSE d[x]]

\* the truth value of a dict: non-empty
DictTruthy(d) == DOMAIN d # {}

\* request bodies: [t |-> Python type, v |-> value]
DataNone == [t |-> "NoneType", v |-> "None"]
DataEmptyDict == [t |-> "dict", v |-> "{}"]
DataDict == [t |-> "dict", v |-> "{issue}"]
DataStream == [t |-> "file", v |-> "stream"]
DataValues == {DataNone, DataEmptyDict, DataDict, DataStream}

\* the truth value of a body: None and the empty dict are false, a file object is true
DataTruthy(d) == ~(d.t = "NoneType" \/ (d.t = "dict" /\ d.v = "{}"))

\* json.dumps: a str holding the JSON text; a file object is not serializable
JsonSerializable(d) == d.t \in {"NoneType", "dict"}
JsonDumps(d) ==
    [t |-> "str", v |-> IF d.t = "NoneType" THEN "null" ELSE d.v]
\* json.loads on a text json.dumps produced
JsonLoads(s) ==
    IF s.v = "null" THEN DataNone ELSE [t |-> "dict", v |-> s.v]

(***************************************************************************)
(* Texts: sequences of tokens.                                             *)
(***************************************************************************)
\* str.rstrip('/')
RECURSIVE RStrip(_)
RStrip(s) ==
    IF s # << >> /\ s[Len(s)] = "/" THEN RStrip(SubSeq(s, 1, Len(s) - 1)) ELSE s

(***************************************************************************)
(* The values the constructor's arguments are drawn from.                  *)
(***************************************************************************)
UrlArgs == {<<"http://h">>, <<"http://h", "/">>}
KeyArgs == {None, "k1"}
Credentials == {<<None, None>>, <<"alice", "pw">>}
ImpersonateArgs == {None, "bob"}
\* the connection options: any keyword the HTTP client's calls accept
RequestsArgs ==
    { EmptyDict,
      "verify" :> FALSE,
      "auth" :> <<"proxyuser", "proxypw">> @@ "headers" :> ("X-Opt" :> "1") }
NoVersion == [given |-> FALSE, parts |-> << >>]
Version(parts) == [given |-> TRUE, parts |-> parts]
VersionArgs ==
    {NoVersion, Version(<<1, 3, 9>>), Version(<<1, 4>>), Version(<<1, 4, 0>>),
     Version(<<2, 0>>)}

(***************************************************************************)
(* Redmine.__init__                                                        *)
(***************************************************************************)
Init ==
    /\ \E u \in UrlArgs : url = RStrip(u)
    /\ key \in KeyArgs
    /\ ver \in VersionArgs
    /\ \E c \in Credentials : username = c[1] /\ password = c[2]
    /\ requests \in RequestsArgs
    /\ impersonate \in ImpersonateArgs
    /\ date_format = "%Y-%m-%d"
    /\ datetime_format = "%Y-%m-%dT%H:%M:%SZ"
    /\ callerHeaders = EmptyDict
    /\ callerParams = EmptyDict
    /\ op = "none"
    /\ args = [none |-> TRUE]
    /\ sent = << >>
    /\ log = << >>
    /\ resp = [none |-> TRUE]
    /\ outcome = [kind |-> "none", what |-> "none", val |-> None]

(***************************************************************************)
(* Optional arguments: None, or a value.                                   *)
(***************************************************************************)
Nil == [given |-> FALSE, v |-> << >>]
Some(v) == [given |-> TRUE, v |-> v]
NoDict == [given |-> FALSE, v |-> EmptyDict]

NoOutcome == [kind |-> "none", what |-> "none", val |-> None]
Raise(what, val) == [kind |-> "raise", what |-> what, val |-> val]
Return(what, val) == [kind |-> "return", what |-> what, val |-> val]

(***************************************************************************)
(* Redmine.request: the keyword arguments passed to the HTTP client.       *)
(***************************************************************************)
SwitchUser == "X-Redmine-Switch-User"
ContentType == "Content-Type"

\* `x or {}` for a dict argument: the caller's dict when it is given and
\* non-empty, a new empty dict otherwise
OrEmpty(arg) == IF arg.given /\ DictTruthy(arg.v) THEN arg.v ELSE EmptyDict

\* `data or {}`
DataOrEmpty(d) == IF DataTruthy(d) THEN d ELSE DataEmptyDict

\* NeedsJson with 'put' left out of the methods
NeedsJsonPostOnly(headers, method) ==
    ContentType \notin DOMAIN headers /\ method = "post"

\* line 135: whether the body is serialized as JSON
NeedsJson(headers, method) ==
    ContentType \notin DOMAIN headers /\ method \in {"post", "put"}

\* ByKey without the test of the params
ByKeyWhateverParams(params, k) == k # None

\* line 143: whether the request authenticates by the configured API key
ByKey(params, k) == "key" \notin DOMAIN params /\ k # None

\* line 139: whether the request impersonates a user
Impersonates(imp) == imp # None

\* the headers dict after the Content-Type and impersonation steps
KwargsHeaders(h0, method, imp) ==
    LET h1 == IF NeedsJson(h0, method)
              THEN DictSet(h0, ContentType, "application/json") ELSE h0
    IN  IF Impersonates(imp) THEN DictSet(h1, SwitchUser, imp) ELSE h1

\* the params dict after the authentication step
KwargsParams(p0, k) == IF ByKey(p0, k) THEN DictSet(p0, "key", k) ELSE p0

\* the body passed to the HTTP client
KwargsData(h0, method, data) ==
    IF NeedsJson(h0, method) THEN JsonDumps(data) ELSE DataOrEmpty(data)

\* the keyword arguments passed to the HTTP client, for the dicts h0 and p0
\* that `headers or {}` and `params or {}` evaluated to
Kwargs(opts, h0, p0, method, data, k, imp, user, pw) ==
    LET kw == DictMerge(opts,
                  "headers" :> KwargsHeaders(h0, method, imp)
               @@ "params" :> KwargsParams(p0, k)
               @@ "data" :> KwargsData(h0, method, data))
    IN  IF ByKey(p0, k) THEN kw ELSE DictSet(kw, "auth", <<user, pw>>)

\* json.dumps raises before anything is written or sent
DumpsRaises(h0, method, data) == NeedsJson(h0, method) /\ ~JsonSerializable(data)

\* RequestsAfter had kwargs been the options dict itself, not a copy
RequestsAfterAliased(opts, kw) == kw

\* the client's connection options after a request: dict(self.requests, **...)
\* is a copy, and the item assignments go to the copy
RequestsAfter(opts, kw) == opts

\* a dict the caller passed, after the call: `x or {}` is the caller's own
\* object when that is non-empty, and the item assignments write into it
CallerDictAfter(arg, final) == IF arg.given /\ DictTruthy(arg.v) THEN final ELSE arg.v

(***************************************************************************)
(* HTTP responses.                                                         *)
(***************************************************************************)
\* the members of a 422 body's 'errors' list: a message, a [field, message]
\* list, or a JSON value that is neither
ErrorItems ==
    { [t |-> "str", parts |-> <<"Subject can't be blank">>],
      [t |-> "list", parts |-> <<"subject", "blank">>],
      [t |-> "number", parts |-> << >>] }
ErrorLists == UNION {[1..n -> ErrorItems] : n \in 0..MaxErrors}

\* decoded JSON documents: null, or an object with an optional 'upload' member
\* ("absent", "notoken": an object without 'token', or the token) and an
\* optional 'errors' list
JsonNull == [t |-> "null", upload |-> "absent", hasErrors |-> FALSE, errors |-> << >>]
JsonObject(upload, hasErrors, errors) ==
    [t |-> "object", upload |-> upload, hasErrors |-> hasErrors, errors |-> errors]
JsonDocs ==
    {JsonNull}
    \cup {JsonObject(u, FALSE, << >>) : u \in {"absent", "notoken", "tok1"}}
    \cup {JsonObject("absent", TRUE, e) : e \in ErrorLists}

\* response bodies: no bytes, only whitespace, bytes that are not JSON, a JSON text
Body(t, doc) == [t |-> t, doc |-> doc]
Bodies ==
    {Body(t, JsonNull) : t \in {"empty", "space", "html"}}
    \cup {Body("json", d) : d \in JsonDocs}

Statuses == {200, 201, 204, 401, 403, 404, 409, 412, 413, 422, 500, 503}

\* the statuses under which the code reads the body get every body (an
\* 'errors' list only under 422, where alone it is read); the others two
Responses ==
    { r \in [status : Statuses, body : Bodies] :
        /\ r.status \notin {200, 201, 422}
              => r.body \in {Body("empty", JsonNull),
                             Body("json", JsonObject("tok1", FALSE, << >>))}
        /\ r.status \in {200, 201} => r.body.doc.errors = << >> }

\* a few of them, for the runs that draw every argument of a call
ResponseSample ==
    { [status |-> 200, body |-> Body("json", JsonObject("tok1", FALSE, << >>))],
      [status |-> 201, body |-> Body("html", JsonNull)],
      [status |-> 404, body |-> Body("empty", JsonNull)],
      [status |-> 412, body |-> Body("empty", JsonNull)] }

\* not response.content.strip()
ContentBlank(body) == body.t \in {"empty", "space"}
\* whether response.json() decodes the body
JsonDecodes(body) == body.t = "json"

\* sep.join(parts) for a sequence of texts
RECURSIVE Join(_, _)
Join(parts, sep) ==
    IF parts = << >> THEN << >>
    ELSE IF Len(parts) = 1 THEN parts[1]
    ELSE parts[1] \o <<sep>> \o Join(Tail(parts), sep)

\* ': '.join(e) if isinstance(e, list) else e
ErrorText(e) ==
    IF e.t = "list" THEN Join([i \in 1..Len(e.parts) |-> <<e.parts[i]>>], ": ")
    ELSE e.parts

\* the 422 branch, lines 172-174
ValidationBranch(body) ==
    IF ~JsonDecodes(body) THEN Raise("ValueError", None)
    ELSE IF body.doc.t # "object" THEN Raise("TypeError", None)
    ELSE IF ~body.doc.hasErrors THEN Raise("KeyError", None)
    ELSE IF \E i \in 1..Len(body.doc.errors) : body.doc.errors[i].t = "number"
         THEN Raise("TypeError", None)
    ELSE Raise("ValidationError",
               Join([i \in 1..Len(body.doc.errors) |-> ErrorText(body.doc.errors[i])], ", "))

\* SuccessBranch with the empty-body test before the raw_response test
SuccessBranchBlankFirst(r, raw) ==
    IF ContentBlank(r.body) THEN Return("True", TRUE)
    ELSE IF raw THEN Return("response", r)
    ELSE IF JsonDecodes(r.body) THEN Return("json", r.body.doc)
    ELSE Raise("JSONDecodeError", r)

\* the 200/201 branch, lines 151-159
SuccessBranch(r, raw) ==
    IF raw THEN Return("response", r)
    ELSE IF ContentBlank(r.body) THEN Return("True", TRUE)
    ELSE IF JsonDecodes(r.body) THEN Return("json", r.body.doc)
    ELSE Raise("JSONDecodeError", r)

\* IsImpersonateError without the test of the configured user
IsImpersonateErrorAny412(status, imp) == status = 412

\* the 412 test, line 168
IsImpersonateError(status, imp) == status = 412 /\ imp # None

\* request, lines 150-178: what the call does with the response
HandleResponse(r, raw, imp) ==
    IF r.status \in {200, 201} THEN SuccessBranch(r, raw)
    ELSE IF r.status = 401 THEN Raise("AuthError", None)
    ELSE IF r.status = 403 THEN Raise("ForbiddenError", None)
    ELSE IF r.status = 404 THEN Raise("ResourceNotFoundError", None)
    ELSE IF r.status = 409 THEN Raise("ConflictError", None)
    ELSE IF IsImpersonateError(r.status, imp) THEN Raise("ImpersonateError", None)
    ELSE IF r.status = 413 THEN Raise("RequestEntityTooLargeError", None)
    ELSE IF r.status = 422 THEN ValidationBranch(r.body)
    ELSE IF r.status = 500 THEN Raise("ServerError", None)
    ELSE Raise("UnknownError", r.status)

(***************************************************************************)
(* Redmine.request                                                         *)
(***************************************************************************)
\* request(method, url, headers, params, data, raw_response) answered by r
Request(method, u, headers, params, data, raw, r) ==
    LET h0 == OrEmpty(headers)
        p0 == OrEmpty(params)
        kw == Kwargs(requests, h0, p0, method, data, key, impersonate, username, password)
    IN  /\ op' = "request"
        /\ args' = [method |-> method, url |-> u, headers |-> headers,
                    params |-> params, data |-> data, raw_response |-> raw]
        /\ IF DumpsRaises(h0, method, data)
           THEN /\ sent' = << >>
                /\ log' = << >>
                /\ resp' = [none |-> TRUE]
                /\ outcome' = Raise("TypeError", None)
                /\ callerHeaders' = headers.v
                /\ callerParams' = params.v
                /\ UNCHANGED requests
           ELSE /\ sent' = <<[method |-> method, url |-> u, kwargs |-> kw]>>
                /\ log' = << <<"dispatch">> >>
                /\ resp' = r
                /\ outcome' = HandleResponse(r, raw, impersonate)
                /\ callerHeaders' = CallerDictAfter(headers, kw["headers"])
                /\ callerParams' = CallerDictAfter(params, kw["params"])
                /\ requests' = RequestsAfter(requests, kw)
        /\ UNCHANGED <<url, key, ver, username, password, impersonate,
                       date_format, datetime_format>>

\* a request call
RequestCall(method, u, headers, params, data, raw, r) ==
    /\ op = "none"
    /\ Request(method, u, headers, params, data, raw, r)

\* the same request call again: the same arguments, the same dict objects
RequestAgain(r) ==
    /\ op = "request"
    /\ Request(args.method, args.url,
               [args.headers EXCEPT !.v = callerHeaders],
               [args.params EXCEPT !.v = callerParams],
               args.data, args.raw_response, r)

(***************************************************************************)
(* Paths and the file system.                                              *)
(***************************************************************************)
\* the files that can be opened for reading, and the directories that exist
ReadableFiles == {<<"a.txt">>}
ExistingDirs == {<<"/", "tmp">>}

\* the index of the last "/" of a text, 0 when it has none
RECURSIVE LastSlash(_)
LastSlash(s) ==
    IF s = << >> THEN 0
    ELSE IF s[Len(s)] = "/" THEN Len(s)
    ELSE LastSlash(SubSeq(s, 1, Len(s) - 1))

\* s.split('/')[-1]
LastSegment(s) == SubSeq(s, LastSlash(s) + 1, Len(s))

\* urlsplit(url)[2]: the path, without the scheme and host (the first token)
\* and without the query (from a "?" token on)
RECURSIVE UntilQuery(_)
UntilQuery(s) ==
    IF s = << >> THEN << >>
    ELSE IF s[1] = "?" THEN << >>
    ELSE <<s[1]>> \o UntilQuery(Tail(s))
UrlPath(u) == UntilQuery(Tail(u))

\* os.path.join(a, b)
PathJoin(a, b) ==
    IF b # << >> /\ b[1] = "/" THEN b
    ELSE IF a = << >> THEN b
    ELSE IF a[Len(a)] = "/" THEN a \o b
    ELSE a \o <<"/">> \o b

\* whether open(path, 'wb') succeeds: the directory exists and a file is named
CanCreate(path) ==
    /\ LastSegment(path) # << >>
    /\ LastSlash(path) > 1
    /\ SubSeq(path, 1, LastSlash(path) - 1) \in ExistingDirs

(***************************************************************************)
(* Redmine.upload                                                          *)
(***************************************************************************)
\* Python's list comparison a < b, as LooseVersion compares parsed versions
RECURSIVE ListLess(_, _)
ListLess(a, b) ==
    IF b = << >> THEN FALSE
    ELSE IF a = << >> THEN TRUE
    ELSE IF a[1] # b[1] THEN a[1] < b[1]
    ELSE ListLess(Tail(a), Tail(b))

\* LooseVersion('1.4.0')
MinUploadVersion == <<1, 4, 0>>

\* VersionTooLow with <= for <
VersionTooLowOrEqual(v) == v.given /\ ~ListLess(MinUploadVersion, v.parts)

\* line 64
VersionTooLow(v) == v.given /\ ListLess(v.parts, MinUploadVersion)

\* line 70: the headers and the url of the upload request
UploadHeaders == ContentType :> "application/octet-stream"
UploadUrl(base) == base \o <<"/", "uploads.json">>

\* line 74: response['upload']['token'] on what request returned
UploadResult(r) ==
    IF r.kind = "raise" THEN r
    ELSE IF r.what # "json" THEN Raise("TypeError", None)
    ELSE IF r.val.t # "object" THEN Raise("TypeError", None)
    ELSE IF r.val.upload \in {"absent", "notoken"} THEN Raise("KeyError", None)
    ELSE Return("token", r.val.upload)

\* upload(filepath), with its request answered by r
UploadCall(filepath, r) ==
    LET h0 == OrEmpty(Some(UploadHeaders))
        p0 == OrEmpty(NoDict)
        kw == Kwargs(requests, h0, p0, "post", DataStream, key, impersonate,
                     username, password)
    IN  /\ op = "none"
        /\ op' = "upload"
        /\ args' = [filepath |-> filepath]
        /\ IF VersionTooLow(ver)
           THEN /\ sent' = << >>
                /\ log' = << >>
                /\ resp' = [none |-> TRUE]
                /\ outcome' = Raise("VersionMismatchError", None)
                /\ UNCHANGED requests
           ELSE IF filepath \notin ReadableFiles
           THEN /\ sent' = << >>
                /\ log' = << <<"open failed", filepath>> >>
                /\ resp' = [none |-> TRUE]
                /\ outcome' = Raise("NoFileError", None)
                /\ UNCHANGED requests
           ELSE /\ sent' = <<[method |-> "post", url |-> UploadUrl(url), kwargs |-> kw]>>
                /\ log' = << <<"open", filepath>>, <<"dispatch">> >>
                /\ resp' = r
                /\ outcome' = UploadResult(HandleResponse(r, FALSE, impersonate))
                /\ requests' = RequestsAfter(requests, kw)
        /\ UNCHANGED <<url, key, ver, username, password, impersonate,
                       date_format, datetime_format, callerHeaders, callerParams>>

(***************************************************************************)
(* Redmine.download                                                        *)
(***************************************************************************)
\* DownloadParams with the caller's entries over 'stream': True
DownloadParamsCallerWins(params) == DictMerge("stream" :> TRUE, OrEmpty(params))

\* line 85: dict(params or {}, **{'stream': True})
DownloadParams(params) == DictMerge(OrEmpty(params), "stream" :> TRUE)

\* lines 97-98: the name the file is saved under
DownloadFileName(u, filename) ==
    IF filename.given THEN filename.v ELSE LastSegment(UrlPath(u))

\* lines 89-109, on what request returned: the outcome and the file operations
DownloadResult(r, u, savepath, filename) ==
    LET name == DownloadFileName(u, filename)
        path == PathJoin(savepath.v, name)
    IN  IF r.kind = "raise" THEN [outcome |-> r, log |-> << >>]
        ELSE IF ~savepath.given THEN [outcome |-> r, log |-> << >>]
        ELSE IF ~filename.given /\ name = << >>
             THEN [outcome |-> Raise("FileUrlError", None), log |-> << >>]
        ELSE IF ~CanCreate(path)
             THEN [outcome |-> Raise("IOError", None),
                   log |-> << <<"open failed", path>> >>]
        ELSE [outcome |-> Return("path", path),
              log |-> << <<"write", path, r.val.body>> >>]

\* download(url, savepath, filename, params), with its request answered by r
DownloadCall(u, savepath, filename, params, r) ==
    LET h0 == OrEmpty(NoDict)
        p0 == OrEmpty(Some(DownloadParams(params)))
        kw == Kwargs(requests, h0, p0, "get", DataNone, key, impersonate,
                     username, password)
        d == DownloadResult(HandleResponse(r, TRUE, impersonate), u, savepath, filename)
    IN  /\ op = "none"
        /\ op' = "download"
        /\ args' = [url |-> u, savepath |-> savepath, filename |-> filename,
                    params |-> params]
        /\ sent' = <<[method |-> "get", url |-> u, kwargs |-> kw]>>
        /\ log' = << <<"dispatch">> >> \o d.log
        /\ resp' = r
        /\ outcome' = d.outcome
        /\ callerParams' = params.v
        /\ requests' = RequestsAfter(requests, kw)
        /\ UNCHANGED <<url, key, ver, username, password, impersonate,
                       date_format, datetime_format, callerHeaders>>

(***************************************************************************)
(* The caller.                                                             *)
(***************************************************************************)
\* the caller moves on: it drops the call's result and the dicts it passed
CallerContinues ==
    /\ op # "none"
    /\ op' = "none"
    /\ args' = [none |-> TRUE]
    /\ sent' = << >>
    /\ log' = << >>
    /\ resp' = [none |-> TRUE]
    /\ outcome' = NoOutcome
    /\ callerHeaders' = EmptyDict
    /\ callerParams' = EmptyDict
    /\ UNCHANGED <<url, key, ver, username, password, requests, impersonate,
                   date_format, datetime_format>>

\* the arguments calls are made with
Methods == {"get", "post", "put", "delete"}
RequestUrls == {<<"http://h", "/", "issues.json">>}
HeaderArgs ==
    {NoDict, Some(EmptyDict), Some("Accept" :> "*/*"),
     Some(ContentType :> "text/plain"), Some(SwitchUser :> "eve")}
ParamArgs ==
    {NoDict, Some(EmptyDict), Some("limit" :> "5"), Some("key" :> "k2")}
DownloadParamArgs ==
    {NoDict, Some("limit" :> "5"), Some("stream" :> FALSE @@ "limit" :> "5")}
FilePaths == {<<"a.txt">>, <<"missing.txt">>}
DownloadUrls ==
    { <<"http://h">>,
      <<"http://h", "/", "attachments", "/">>,
      <<"http://h", "/", "attachments", "/", "a.png", "?", "v=1">> }
SavePaths == {Nil, Some(<<"/", "tmp">>), Some(<<"/", "nodir">>)}
FileNames == {Nil, Some(<<"b.png">>), Some(<< >>)}

\* every argument of a call, a few responses
Next ==
    \/ \E m \in Methods, u \in RequestUrls, h \in HeaderArgs, p \in ParamArgs,
          d \in DataValues, r \in ResponseSample :
          RequestCall(m, u, h, p, d, FALSE, r)
    \/ \E r \in ResponseSample : RequestAgain(r)
    \/ \E f \in FilePaths, r \in ResponseSample : UploadCall(f, r)
    \/ \E u \in DownloadUrls, s \in SavePaths, f \in FileNames,
          p \in DownloadParamArgs, r \in ResponseSample :
          DownloadCall(u, s, f, p, r)
    \/ CallerContinues

Spec == Init /\ [][Next]_vars

\* every response, calls that differ in what is done with the response
NextResponses ==
    \/ \E raw \in BOOLEAN, r \in Responses :
          RequestCall("get", <<"http://h", "/", "issues.json">>, NoDict, NoDict,
                      DataNone, raw, r)
    \/ \E r \in Responses : RequestAgain(r)
    \/ \E f \in FilePaths, r \in Responses : UploadCall(f, r)
    \/ \E u \in DownloadUrls, s \in SavePaths, f \in FileNames, r \in Responses :
          DownloadCall(u, s, f, NoDict, r)
    \/ CallerContinues

SpecResponses == Init /\ [][NextResponses]_vars

(***************************************************************************)
(* Properties.  What the last call was given, as request saw it.           *)
(***************************************************************************)
Received == "status" \in DOMAIN resp
Dispatched == sent # << >>
SentKwargs == sent[1].kwargs

\* the headers, params and body request was called with
PassedHeaders ==
    IF op = "request" THEN OrEmpty(args.headers)
    ELSE IF op = "upload" THEN ContentType :> "application/octet-stream"
    ELSE EmptyDict
PassedParams ==
    IF op = "request" THEN OrEmpty(args.params)
    ELSE IF op = "download" THEN DictMerge(OrEmpty(args.params), "stream" :> TRUE)
    ELSE EmptyDict
PassedData ==
    IF op = "request" THEN args.data
    ELSE IF op = "upload" THEN DataStream
    ELSE DataNone

\* the exceptions of the library's own hierarchy
TypedErrors ==
    {"VersionMismatchError", "NoFileError", "FileUrlError", "JSONDecodeError",
     "AuthError", "ForbiddenError", "ResourceNotFoundError", "ConflictError",
     "ImpersonateError", "RequestEntityTooLargeError", "ValidationError",
     "ServerError", "UnknownError"}

\* the error a status is mapped to, when it is one of the fixed ones
FixedError(status) ==
    CASE status = 401 -> "AuthError"
      [] status = 403 -> "ForbiddenError"
      [] status = 404 -> "ResourceNotFoundError"
      [] status = 409 -> "ConflictError"
      [] status = 413 -> "RequestEntityTooLargeError"
      [] status = 500 -> "ServerError"
      [] OTHER -> "UnknownError"

HoldsErrorsList(body) ==
    body.t = "json" /\ body.doc.t = "object" /\ body.doc.hasErrors

\* C1: request maps every status other than 200 and 201 to one fixed typed
\* error and returns no value for it: 401, 403, 404, 409, 413 and 500 to their
\* errors, 422 with a JSON body holding an 'errors' list to ValidationError, and
\* every other status except 412 to UnknownError carrying the status.
C1_StatusToError ==
    (op = "request" /\ Received /\ resp.status \notin {200, 201}) =>
        /\ outcome.kind = "raise"
        /\ resp.status = 422 =>
              (HoldsErrorsList(resp.body) => outcome.what = "ValidationError")
        /\ resp.status \notin {412, 422} =>
              /\ outcome.what = FixedError(resp.status)
              /\ outcome.what = "UnknownError" => outcome.val = resp.status

\* C1, for the 'errors' lists whose members are messages or [field, message]
\* lists: the mapping holds
C1_StatusToErrorTextMembers ==
    (op = "request" /\ Received /\ resp.status \notin {200, 201}) =>
        /\ outcome.kind = "raise"
        /\ resp.status = 422 =>
              ((/\ HoldsErrorsList(resp.body)
                /\ \A i \in 1..Len(resp.body.doc.errors) :
                      resp.body.doc.errors[i].t \in {"str", "list"})
               => outcome.what = "ValidationError")
        /\ resp.status \notin {412, 422} =>
              /\ outcome.what = FixedError(resp.status)
              /\ outcome.what = "UnknownError" => outcome.val = resp.status

\* C2: for every response received, request either returns a result (the raw
\* response, True or the decoded JSON) or raises an error of the library's
\* hierarchy; no other error escapes.
C2_TypedOutcome ==
    (op = "request" /\ Received) =>
        \/ outcome.kind = "return" /\ outcome.what \in {"response", "True", "json"}
        \/ outcome.kind = "raise" /\ outcome.what \in TypedErrors

\* C3: for status 200 or 201 request returns the response itself when
\* raw_response is set, whatever the body; otherwise True when the body is
\* empty or whitespace; otherwise the decoded JSON, or raises JSONDecodeError
\* when the body does not decode.
C3_SuccessResult ==
    (op = "request" /\ Received /\ resp.status \in {200, 201}) =>
        IF args.raw_response
        THEN outcome.kind = "return" /\ outcome.what = "response" /\ outcome.val = resp
        ELSE IF resp.body.t \in {"empty", "space"}
        THEN outcome.kind = "return" /\ outcome.what = "True"
        ELSE IF resp.body.t = "json"
        THEN outcome.kind = "return" /\ outcome.what = "json"
             /\ outcome.val = resp.body.doc
        ELSE outcome.kind = "raise" /\ outcome.what = "JSONDecodeError"

\* a raw_response call answered 200 with an empty body returned the response
C3_Witness ==
    /\ op = "request" /\ Received /\ resp.status = 200
    /\ args.raw_response /\ resp.body.t = "empty"
    /\ outcome.what = "response"

\* C4, as claimed: every dispatched request carries one credential.  With a
\* key configured and no 'key' among the params passed, the configured key is
\* the 'key' parameter and no auth pair is attached; in every other case the
\* (username, password) pair is attached and the configured key is not injected.
C4_OneCredential ==
    Dispatched =>
        IF key # None /\ "key" \notin DOMAIN PassedParams
        THEN /\ "key" \in DOMAIN SentKwargs["params"]
             /\ SentKwargs["params"]["key"] = key
             /\ "auth" \notin DOMAIN SentKwargs
        ELSE /\ "auth" \in DOMAIN SentKwargs
             /\ SentKwargs["auth"] = <<username, password>>
             /\ SentKwargs["params"] = PassedParams

\* C4, amended: with a key configured and no 'key' among the params passed,
\* the configured key is the 'key' parameter and request attaches no auth pair:
\* the request has an 'auth' entry only when the connection options hold one,
\* which is passed on as it is.  In every other case the (username, password)
\* pair is attached and the configured key is not injected.
C4_OneCredentialAdded ==
    Dispatched =>
        IF key # None /\ "key" \notin DOMAIN PassedParams
        THEN /\ "key" \in DOMAIN SentKwargs["params"]
             /\ SentKwargs["params"]["key"] = key
             /\ "auth" \in DOMAIN SentKwargs <=> "auth" \in DOMAIN requests
             /\ "auth" \in DOMAIN SentKwargs => SentKwargs["auth"] = requests["auth"]
        ELSE /\ "auth" \in DOMAIN SentKwargs
             /\ SentKwargs["auth"] = <<username, password>>
             /\ SentKwargs["params"] = PassedParams

\* a request authenticated by the configured key went out with the auth pair
\* of the connection options
C4_Witness ==
    /\ op = "request" /\ Dispatched
    /\ key # None /\ "key" \notin DOMAIN PassedParams
    /\ "auth" \in DOMAIN requests
    /\ SentKwargs["params"]["key"] = key
    /\ SentKwargs["auth"] = requests["auth"]

\* C5: the body of a dispatched request is the JSON text of the caller's data,
\* with Content-Type: application/json set, exactly when the method is post or
\* put and the headers passed hold no Content-Type; otherwise the body is the
\* caller's data, or an empty dict when that is falsy, and no Content-Type is added.
C5_JsonBody ==
    Dispatched =>
        IF sent[1].method \in {"post", "put"} /\ ContentType \notin DOMAIN PassedHeaders
        THEN /\ SentKwargs["data"].t = "str"
             /\ JsonLoads(SentKwargs["data"]) = PassedData
             /\ ContentType \in DOMAIN SentKwargs["headers"]
             /\ SentKwargs["headers"][ContentType] = "application/json"
        ELSE /\ SentKwargs["data"] =
                    (IF PassedData \in {DataNone, DataEmptyDict}
                     THEN DataEmptyDict ELSE PassedData)
             /\ ContentType \in DOMAIN SentKwargs["headers"]
                    <=> ContentType \in DOMAIN PassedHeaders
             /\ ContentType \in DOMAIN PassedHeaders
                    => SentKwargs["headers"][ContentType] = PassedHeaders[ContentType]

\* a put of None without a Content-Type went out as the JSON text null
C5_Witness ==
    /\ op = "request" /\ Dispatched
    /\ args.method = "put" /\ args.data = DataNone
    /\ ContentType \notin DOMAIN PassedHeaders
    /\ SentKwargs["data"] = [t |-> "str", v |-> "null"]

\* a < b for lists of numbers: they agree up to a place where a ends and b goes
\* on, or where a is smaller
LexLess(a, b) ==
    \E i \in 1..Len(b) :
        /\ \A j \in 1..(i - 1) : j <= Len(a) /\ a[j] = b[j]
        /\ i = Len(a) + 1 \/ (i <= Len(a) /\ a[i] < b[i])

\* C6: upload raises VersionMismatchError, without opening the file or
\* dispatching, when a version lower than 1.4.0 is configured; otherwise raises
\* NoFileError, without dispatching, when the file cannot be opened; otherwise
\* dispatches exactly one POST to <base url>/uploads.json with Content-Type
\* application/octet-stream and the file stream as body, and returns the token
\* under upload.token of the decoded response.  With no version configured the
\* version check does not fail.
C6_UploadOrder ==
    op = "upload" =>
        /\ Len(sent) <= 1
        /\ ~ver.given => outcome.what # "VersionMismatchError"
        /\ IF ver.given /\ LexLess(ver.parts, <<1, 4, 0>>)
           THEN /\ outcome.kind = "raise" /\ outcome.what = "VersionMismatchError"
                /\ log = << >> /\ sent = << >>
           ELSE IF args.filepath \notin ReadableFiles
           THEN /\ outcome.kind = "raise" /\ outcome.what = "NoFileError"
                /\ sent = << >>
                /\ \A i \in 1..Len(log) : log[i][1] \notin {"open", "dispatch"}
           ELSE /\ Len(sent) = 1
                /\ log = << <<"open", args.filepath>>, <<"dispatch">> >>
                /\ sent[1].method = "post"
                /\ sent[1].url = url \o <<"/", "uploads.json">>
                /\ SentKwargs["headers"][ContentType] = "application/octet-stream"
                /\ SentKwargs["data"] = DataStream
                /\ (/\ resp.status \in {200, 201}
                    /\ resp.body.t = "json"
                    /\ resp.body.doc.t = "object"
                    /\ resp.body.doc.upload \notin {"absent", "notoken"})
                   => /\ outcome.kind = "return"
                      /\ outcome.val = resp.body.doc.upload

\* an upload under a configured version that is not lower than 1.4.0 returned
\* the token
C6_Witness ==
    /\ op = "upload" /\ ver.given /\ Len(sent) = 1
    /\ outcome.kind = "return" /\ outcome.val = "tok1"

\* the params the caller passed to download, an empty dict for None
DownloadCallerParams == IF args.params.given THEN args.params.v ELSE EmptyDict

C8_SameRequestAgain ==
    [][(op = "request" /\ op' = "request") => sent' = sent]_vars

\* C9, as claimed: status 412 raises ImpersonateError exactly when a user to
\* impersonate is configured, and UnknownError carrying 412 otherwise; the
\* X-Redmine-Switch-User header is on a dispatched request exactly when a user
\* to impersonate is configured, with that user as its value.
C9_ImpersonateExactly ==
    /\ (Received /\ resp.status = 412) =>
          IF impersonate # None
          THEN outcome.kind = "raise" /\ outcome.what = "ImpersonateError"
          ELSE outcome.kind = "raise" /\ outcome.what = "UnknownError"
               /\ outcome.val = 412
    /\ outcome.what = "ImpersonateError" => (resp.status = 412 /\ impersonate # None)
    /\ Dispatched =>
          /\ SwitchUser \in DOMAIN SentKwargs["headers"] <=> impersonate # None
          /\ impersonate # None => SentKwargs["headers"][SwitchUser] = impersonate

\* C9, amended: the same for status 412; request sets the header to the
\* configured user exactly when a user to impersonate is configured, and with
\* none configured the header is on the request only when the headers passed
\* hold it, with the value passed.
C9_ImpersonateSet ==
    /\ (Received /\ resp.status = 412) =>
          IF impersonate # None
          THEN outcome.kind = "raise" /\ outcome.what = "ImpersonateError"
          ELSE outcome.kind = "raise" /\ outcome.what = "UnknownError"
               /\ outcome.val = 412
    /\ outcome.what = "ImpersonateError" => (resp.status = 412 /\ impersonate # None)
    /\ Dispatched =>
          IF impersonate # None
          THEN /\ SwitchUser \in DOMAIN SentKwargs["headers"]
               /\ SentKwargs["headers"][SwitchUser] = impersonate
          ELSE /\ SwitchUser \in DOMAIN SentKwargs["headers"]
                     <=> SwitchUser \in DOMAIN PassedHeaders
               /\ SwitchUser \in DOMAIN PassedHeaders
                     => SentKwargs["headers"][SwitchUser] = PassedHeaders[SwitchUser]

\* with no user to impersonate configured, a request the caller gave the
\* header to was answered 412 and raised UnknownError
C9_Witness ==
    /\ op = "request" /\ Received /\ resp.status = 412
    /\ impersonate = None
    /\ SwitchUser \in DOMAIN SentKwargs["headers"]
    /\ outcome.what = "UnknownError"

\* C10: no call changes a configuration field of the client, whatever its outcome.
C10_ConfigFrame ==
    [][config' = config]_vars

\* a request call of a client with connection options that was given headers
\* and params and raised an error
C10_Witness ==
    /\ op = "request" /\ outcome.kind = "raise"
    /\ DOMAIN requests # {}
    /\ args.headers.given /\ DOMAIN args.headers.v # {}
    /\ args.params.given /\ DOMAIN args.params.v # {}

====
